---- MODULE Spec2Model ----
(***************************************************************************)
(* A model of psycopg2's SQL composition module (lib/sql.py).              *)
(*                                                                         *)
(* Python objects live in a heap: a sequence of object records, the        *)
(* address of an object being its index.  Object identity is the address,  *)
(* so "returns self" and "returns a new object" are different outcomes.    *)
(*                                                                         *)
(* A text is a sequence of lexical items: an item is either one ordinary   *)
(* character or one replacement field ({}, {0}, {name}, {0!r}, {:x}) of    *)
(* the str.format mini-language.  Brace escapes ({{ and }}) and malformed  *)
(* braces are handled inside string.Formatter and are not modelled.        *)
(***************************************************************************)
EXTENDS Integers, Sequences, FiniteSets, TLC

VARIABLES heap, last, nops, pc, reg, fmt

vars == <<heap, last, nops, pc, reg, fmt>>

-----------------------------------------------------------------------------
(* Bounds of the model.                                                    *)

MaxOps == 1
MaxSeq == 2
MaxRepeat == 2
MaxArgs == 2
MaxTmpl == 3

-----------------------------------------------------------------------------
(* Texts.                                                                  *)

NoValue == "None"

Ch(c) == [field |-> FALSE, ch |-> c, name |-> NoValue, conv |-> NoValue, spec |-> ""]

Field(n, c, s) == [field |-> TRUE, ch |-> "", name |-> n, conv |-> c, spec |-> s]

Str(cs) == [i \in 1..Len(cs) |-> Ch(cs[i])]

-----------------------------------------------------------------------------
(* Objects.  Kind "str" is a Python string and kind "int" any other Python  *)
(* object that is no Composable.                                           *)

ComposableKinds == {"SQL", "Identifier", "Literal", "Placeholder", "Composed"}

Obj(k, w, s, n) == [kind |-> k, wrapped |-> w, seq |-> s, named |-> n]

SQL(string) == Obj("SQL", string, <<>>, FALSE)

Identifier(string) == Obj("Identifier", string, <<>>, FALSE)

Literal(wrapped) == Obj("Literal", wrapped, <<>>, FALSE)

Placeholder(name) == Obj("Placeholder", name, <<>>, TRUE)

PlaceholderNone == Obj("Placeholder", <<>>, <<>>, FALSE)

ComposedObj(seq) == Obj("Composed", <<>>, seq, FALSE)

IntObj == Obj("int", <<>>, <<>>, FALSE)

StrObj(string) == Obj("str", string, <<>>, FALSE)

isString(h, a) == h[a].kind = "str"

isComposable(h, a) == h[a].kind \in ComposableKinds

isComposed(h, a) == h[a].kind = "Composed"

isSQL(h, a) == h[a].kind = "SQL"

(* The outcome of a call: an exception (err) or a returned reference.      *)
Return(a) == [err |-> "", msg |-> "", ref |-> a]

Raise(e, m) == [err |-> e, msg |-> m, ref |-> 0]

Call(h, r) == [heap |-> h, res |-> r]

-----------------------------------------------------------------------------
(* Variant: a constructor that accepts any element. *)
AllComposable_Unchecked(h, seq) == TRUE

(* Composed.__init__: copies seq element by element and raises TypeError   *)
(* at the first element that is no Composable.                             *)
AllComposable(h, seq) == \A i \in 1..Len(seq) : isComposable(h, seq[i])

Composed_init(h, seq) ==
    IF AllComposable(h, seq)
    THEN Call(Append(h, ComposedObj(seq)), Return(Len(h) + 1))
    ELSE Call(h, Raise("TypeError", "Composed elements must be Composable"))

-----------------------------------------------------------------------------
(* Rendering.  The context is a connection, a cursor or anything else.     *)

Contexts == {"connection", "cursor", "other"}

Text(t) == [err |-> "", text |-> t]

RenderError(e) == [err |-> e, text |-> <<>>]

isConnOrCurs(ctx) == ctx \in {"connection", "cursor"}

RECURSIVE Doubled(_, _)
Doubled(t, q) ==
    IF t = <<>> THEN <<>>
    ELSE (IF Head(t) = Ch(q) THEN <<Ch(q), Ch(q)>> ELSE <<Head(t)>>) \o Doubled(Tail(t), q)

(* ext.quote_ident: double quotes around the name, embedded ones doubled.  *)
quote_ident(string, ctx) ==
    IF isConnOrCurs(ctx)
    THEN Text(<<Ch("\"")>> \o Doubled(string, "\"") \o <<Ch("\"")>>)
    ELSE RenderError("TypeError")

(* ext.adapt(value).getquoted() for a text value.                          *)
getquoted(wrapped) == <<Ch("'")>> \o Doubled(wrapped, "'") \o <<Ch("'")>>

SQL_as_string(o, ctx) == Text(o.wrapped)

Identifier_as_string(o, ctx) == quote_ident(o.wrapped, ctx)

Literal_as_string(o, ctx) ==
    IF isConnOrCurs(ctx) THEN Text(getquoted(o.wrapped)) ELSE RenderError("TypeError")

Placeholder_as_string(o, ctx) ==
    IF o.named
    THEN Text(Str(<<"%", "(">>) \o o.wrapped \o Str(<<")", "s">>))
    ELSE Text(Str(<<"%", "s">>))

RECURSIVE as_string(_, _, _)
RECURSIVE Composed_as_string(_, _, _, _, _)

(* Composed.as_string: the loop over self._seq from child i on, rv being   *)
(* the concatenation of the pieces collected so far.                       *)
Composed_as_string(h, seq, i, rv, ctx) ==
    IF i > Len(seq) THEN Text(rv)
    ELSE LET s == as_string(h, seq[i], ctx)
         IN  IF s.err # "" THEN s
             ELSE Composed_as_string(h, seq, i + 1, rv \o s.text, ctx)

as_string(h, a, ctx) ==
    LET o == h[a]
    IN  CASE o.kind = "SQL" -> SQL_as_string(o, ctx)
          [] o.kind = "Identifier" -> Identifier_as_string(o, ctx)
          [] o.kind = "Literal" -> Literal_as_string(o, ctx)
          [] o.kind = "Placeholder" -> Placeholder_as_string(o, ctx)
          [] o.kind = "Composed" -> Composed_as_string(h, o.seq, 1, <<>>, ctx)
          [] OTHER -> RenderError("AttributeError")

-----------------------------------------------------------------------------
(* Composition operators.                                                  *)

(* Variant: an addition that extends the receiver and returns it. *)
Composed_add_InPlace(h, self, other) ==
    IF isComposed(h, other)
    THEN Call([h EXCEPT ![self].seq = h[self].seq \o h[other].seq], Return(self))
    ELSE IF isComposable(h, other)
    THEN Call([h EXCEPT ![self].seq = Append(h[self].seq, other)], Return(self))
    ELSE Call(h, Raise("TypeError", "unsupported operand type(s) for +"))

(* Composed.__add__ *)
Composed_add(h, self, other) ==
    IF isComposed(h, other) THEN Composed_init(h, h[self].seq \o h[other].seq)
    ELSE IF isComposable(h, other) THEN Composed_init(h, h[self].seq \o <<other>>)
    ELSE Call(h, Raise("TypeError", "unsupported operand type(s) for +"))

(* Variant: an addition that nests a Composed operand. *)
Composable_add_Pair(h, self, other) ==
    IF isComposable(h, other) THEN Composed_init(h, <<self, other>>)
    ELSE Call(h, Raise("TypeError", "unsupported operand type(s) for +"))

(* Variant: an addition that puts the other operand first. *)
Composable_add_Swapped(h, self, other) ==
    IF isComposed(h, other)
    THEN LET c1 == Composed_init(h, <<self>>)
         IN  Composed_add(c1.heap, other, c1.res.ref)
    ELSE IF isComposable(h, other)
    THEN LET c1 == Composed_init(h, <<self>>)
             c2 == Composed_init(c1.heap, <<other>>)
         IN  Composed_add(c2.heap, c2.res.ref, c1.res.ref)
    ELSE Call(h, Raise("TypeError", "unsupported operand type(s) for +"))

(* Composable.__add__: wraps the receiver (and a leaf operand) in fresh    *)
(* one-element Composed objects and adds those.                            *)
Composable_add(h, self, other) ==
    IF isComposed(h, other)
    THEN LET c1 == Composed_init(h, <<self>>)
         IN  Composed_add(c1.heap, c1.res.ref, other)
    ELSE IF isComposable(h, other)
    THEN LET c1 == Composed_init(h, <<self>>)
             c2 == Composed_init(c1.heap, <<other>>)
         IN  Composed_add(c2.heap, c1.res.ref, c2.res.ref)
    ELSE Call(h, Raise("TypeError", "unsupported operand type(s) for +"))

(* self + other, dispatched on the receiver's class. *)
add(h, self, other) ==
    IF isComposed(h, self) THEN Composed_add(h, self, other)
    ELSE Composable_add(h, self, other)

(* Variant: a repetition that is one too long. *)
ListRepeat_OneMore(self, n) == [i \in 1..(n + 1) |-> self]

(* [self] * n *)
ListRepeat(self, n) == [i \in 1..n |-> self]

(* Composable.__mul__ *)
Composable_mul(h, self, n) == Composed_init(h, ListRepeat(self, n))

-----------------------------------------------------------------------------
(* Joins.  An argument that may be either an object or a plain Python list *)
(* of objects is a record: ref # 0 names the object, else list is the list.*)

Ref(a) == [ref |-> a, list |-> <<>>]

List(l) == [ref |-> 0, list |-> l]

(* SQL.__init__ *)
SQL_init(h, string) ==
    IF isString(h, string)
    THEN Call(Append(h, SQL(h[string].wrapped)), Return(Len(h) + 1))
    ELSE Call(h, Raise("TypeError", "SQL values must be strings"))

(* Variant: a loop body that leaves the joiner out. *)
Composed_join_step_NoJoiner(rv, joiner, i) == rv \o <<i>>

(* One turn of the loop of Composed.join: rv.append(joiner); rv.append(i) *)
Composed_join_step(rv, joiner, i) == rv \o <<joiner, i>>

RECURSIVE Composed_join_loop(_, _, _, _)
Composed_join_loop(seq, i, joiner, rv) ==
    IF i > Len(seq) THEN rv
    ELSE Composed_join_loop(seq, i + 1, joiner, Composed_join_step(rv, joiner, seq[i]))

(* len(self._seq) <= 1: nothing to interpose *)
Composed_join_trivial(seq) == Len(seq) <= 1

(* Composed.join *)
Composed_join(h, self, joiner) ==
    LET j == IF isString(h, joiner) THEN SQL_init(h, joiner)
             ELSE IF isSQL(h, joiner) THEN Call(h, Return(joiner))
             ELSE Call(h, Raise("TypeError",
                                "Composed.join() argument must be a string or an SQL"))
        seq == h[self].seq
    IN  IF j.res.err # "" THEN j
        ELSE IF Composed_join_trivial(seq) THEN Call(j.heap, Return(self))
        ELSE Composed_init(j.heap, Composed_join_loop(seq, 2, j.res.ref, <<seq[1]>>))

(* Variant: a loop body that puts the separator after the element. *)
SQL_join_step_Trailing(rv, self, i) == rv \o <<i, self>>

(* One turn of the loop of SQL.join: rv.append(self); rv.append(i) *)
SQL_join_step(rv, self, i) == rv \o <<self, i>>

RECURSIVE SQL_join_loop(_, _, _, _)
SQL_join_loop(seq, i, self, rv) ==
    IF i > Len(seq) THEN rv
    ELSE SQL_join_loop(seq, i + 1, self, SQL_join_step(rv, self, seq[i]))

(* The list SQL.join builds: empty when the iterator is exhausted at once. *)
SQL_join_rv(seq, self) ==
    IF seq = <<>> THEN <<>> ELSE SQL_join_loop(seq, 2, self, <<seq[1]>>)

(* SQL.join.  A Composed argument stands for its _seq; a string iterates   *)
(* over its characters, which are strings; other objects do not iterate.   *)
SQL_join(h, self, seq) ==
    IF seq.ref = 0 THEN Composed_init(h, SQL_join_rv(seq.list, self))
    ELSE IF isComposed(h, seq.ref) THEN Composed_init(h, SQL_join_rv(h[seq.ref].seq, self))
    ELSE IF isString(h, seq.ref)
    THEN IF h[seq.ref].wrapped = <<>> THEN Composed_init(h, <<>>)
         ELSE Call(h, Raise("TypeError", "Composed elements must be Composable"))
    ELSE Call(h, Raise("TypeError", "object is not iterable"))

-----------------------------------------------------------------------------
(* SQL.format.                                                             *)

(* _formatter.parse: splits a text into (pre, name, spec, conv) items, one *)
(* per replacement field, pre being the literal run before the field, and  *)
(* a last item with name None for a literal run that ends the text.        *)
Item(pre, name, spec, conv) == [pre |-> pre, name |-> name, spec |-> spec, conv |-> conv]

RECURSIVE parse_from(_, _)
parse_from(t, pre) ==
    IF t = <<>>
    THEN IF pre = <<>> THEN <<>> ELSE <<Item(pre, NoValue, "", NoValue)>>
    ELSE IF Head(t).field
    THEN <<Item(pre, Head(t).name, Head(t).spec, Head(t).conv)>> \o parse_from(Tail(t), <<>>)
    ELSE parse_from(Tail(t), Append(pre, Head(t)))

parse(t) == parse_from(t, <<>>)

Digits == <<"0", "1", "2", "3">>

(* name.isdigit() *)
isdigit(name) == \E d \in 1..Len(Digits) : Digits[d] = name

(* int(name) *)
int(name) == (CHOOSE d \in 1..Len(Digits) : Digits[d] = name) - 1

(* kwargs maps every keyword name of the model to an object, 0 standing    *)
(* for a keyword that was not passed.                                      *)
KwNames == {"k"}

hasKey(kwargs, name) == name \in DOMAIN kwargs /\ kwargs[name] # 0

(* autonum is None *)
isNone(autonum) == autonum < 0

(* the value None of autonum *)
AutonumNone == 0 - 1

(* Variant: no test for automatic numbering. *)
autonumStarted_Never(autonum) == FALSE

(* `if autonum:` - automatic numbering has begun *)
autonumStarted(autonum) == ~isNone(autonum) /\ autonum # 0

(* `if autonum is None:` - manual numbering has begun *)
manualStarted(autonum) == isNone(autonum)

(* args[int(name)] *)
manualIndex(name) == int(name)

(* args[autonum] *)
autoIndex(autonum) == autonum

(* Variant: a counter that is never advanced. *)
nextAutonum_Stuck(autonum) == autonum

(* autonum += 1 *)
nextAutonum(autonum) == autonum + 1

(* args[i] on a tuple, i >= 0 *)
inRange(args, i) == i < Len(args)

(* The state of the loop: the heap, rv, autonum and the exception raised.  *)
Loop(h, rv, autonum, res) == [heap |-> h, rv |-> rv, autonum |-> autonum, res |-> res]

LoopRaise(st, e, m) == Loop(st.heap, st.rv, st.autonum, Raise(e, m))

(* rv.append(SQL(pre)) when pre is not empty *)
appendPre(st, pre) ==
    IF pre # <<>>
    THEN Loop(Append(st.heap, SQL(pre)), Append(st.rv, Len(st.heap) + 1), st.autonum, st.res)
    ELSE st

(* Variant: the argument is looked up before the numbering mode is tested. *)
formatName_LookupFirst(st, name, args, kwargs) ==
    IF name = NoValue THEN st
    ELSE IF isdigit(name)
    THEN IF ~inRange(args, manualIndex(name))
         THEN LoopRaise(st, "IndexError", "tuple index out of range")
         ELSE IF autonumStarted(st.autonum)
         THEN LoopRaise(st, "ValueError",
                        "cannot switch from automatic field numbering to manual")
         ELSE Loop(st.heap, Append(st.rv, args[manualIndex(name) + 1]), AutonumNone, st.res)
    ELSE IF name = ""
    THEN IF ~isNone(st.autonum) /\ ~inRange(args, autoIndex(st.autonum))
         THEN LoopRaise(st, "IndexError", "tuple index out of range")
         ELSE IF manualStarted(st.autonum)
         THEN LoopRaise(st, "ValueError",
                        "cannot switch from manual field numbering to automatic")
         ELSE Loop(st.heap, Append(st.rv, args[autoIndex(st.autonum) + 1]),
                   nextAutonum(st.autonum), st.res)
    ELSE IF ~hasKey(kwargs, name)
    THEN LoopRaise(st, "KeyError", name)
    ELSE Loop(st.heap, Append(st.rv, kwargs[name]), st.autonum, st.res)

(* The part of the loop body that handles the field name. *)
formatName(st, name, args, kwargs) ==
    IF name = NoValue THEN st
    ELSE IF isdigit(name)
    THEN IF autonumStarted(st.autonum)
         THEN LoopRaise(st, "ValueError",
                        "cannot switch from automatic field numbering to manual")
         ELSE IF ~inRange(args, manualIndex(name))
         THEN LoopRaise(st, "IndexError", "tuple index out of range")
         ELSE Loop(st.heap, Append(st.rv, args[manualIndex(name) + 1]), AutonumNone, st.res)
    ELSE IF name = ""
    THEN IF manualStarted(st.autonum)
         THEN LoopRaise(st, "ValueError",
                        "cannot switch from manual field numbering to automatic")
         ELSE IF ~inRange(args, autoIndex(st.autonum))
         THEN LoopRaise(st, "IndexError", "tuple index out of range")
         ELSE Loop(st.heap, Append(st.rv, args[autoIndex(st.autonum) + 1]),
                   nextAutonum(st.autonum), st.res)
    ELSE IF ~hasKey(kwargs, name)
    THEN LoopRaise(st, "KeyError", name)
    ELSE Loop(st.heap, Append(st.rv, kwargs[name]), st.autonum, st.res)

(* One turn of the loop of SQL.format, for the item f. *)
formatItem(st, f, args, kwargs) ==
    IF f.spec # ""
    THEN LoopRaise(st, "ValueError", "no format specification supported by SQL")
    ELSE IF f.conv # NoValue /\ f.conv # ""
    THEN LoopRaise(st, "ValueError", "no format conversion supported by SQL")
    ELSE formatName(appendPre(st, f.pre), f.name, args, kwargs)

RECURSIVE formatLoop(_, _, _, _, _)
formatLoop(st, items, i, args, kwargs) ==
    IF i > Len(items) \/ st.res.err # "" THEN st
    ELSE formatLoop(formatItem(st, items[i], args, kwargs), items, i + 1, args, kwargs)

(* return Composed(rv) *)
formatReturn(st) ==
    IF st.res.err # "" THEN Call(st.heap, st.res) ELSE Composed_init(st.heap, st.rv)

(* SQL.format *)
SQL_format(h, self, args, kwargs) ==
    formatReturn(formatLoop(Loop(h, <<>>, 0, Return(0)), parse(h[self].wrapped), 1,
                            args, kwargs))

-----------------------------------------------------------------------------
(* The objects every run starts with: the leaves, two objects that are no  *)
(* Composable, and Composed objects of 0, 1, 2 and 3 children, one nested. *)

BaseHeap ==
    << SQL(Str(<<",">>)),
       Identifier(Str(<<"t", "\"">>)),
       Literal(Str(<<"v", "'">>)),
       Placeholder(Str(<<"p">>)),
       IntObj,
       StrObj(Str(<<";">>)),
       ComposedObj(<<>>),
       ComposedObj(<<2>>),
       ComposedObj(<<3, 8>>),
       ComposedObj(<<4, 1, 2>>) >>

(* The elements plain lists and argument tuples are drawn from. *)
ListElems == {2, 5, 9}

RECURSIVE SeqsUpTo(_, _)
SeqsUpTo(S, n) ==
    IF n = 0 THEN {<<>>}
    ELSE LET shorter == SeqsUpTo(S, n - 1)
         IN  shorter \cup {Append(l, x) : l \in shorter, x \in S}

Lists == SeqsUpTo(ListElems, MaxSeq)

ArgTuples == SeqsUpTo(ListElems, MaxArgs)

Kwargs == [KwNames -> ListElems \cup {0}]

NoKwargs == [k \in KwNames |-> 0]

(* The templates of the SQL object the composition machine formats. *)
HeapTemplates ==
    { <<Field("", NoValue, ""), Ch("s"), Field("k", NoValue, "")>>,
      <<Field("1", NoValue, ""), Field("0", NoValue, "")>> }

Addrs(h) == 1..Len(h)

Composables(h) == {a \in Addrs(h) : isComposable(h, a)}

(* The record of a call: the operation, its receiver and arguments, the    *)
(* outcome, and the number of objects that existed before the call.        *)
CallRec(op, self, other, arg, args, kwargs, res, before) ==
    [op |-> op, self |-> self, other |-> other, arg |-> arg, args |-> args,
     kwargs |-> kwargs, res |-> res, before |-> before]

NoCall == CallRec("none", 0, 0, List(<<>>), <<>>, NoKwargs, Return(0), 0)

NoReg == [a |-> 0, b |-> 0, c |-> 0, arg |-> List(<<>>), x |-> Return(0), y |-> Return(0)]

NoFmt == [self |-> 0, args |-> <<>>, kwargs |-> NoKwargs, items |-> <<>>, i |-> 0,
          rv |-> <<>>, autonum |-> 0]

-----------------------------------------------------------------------------
(* The composition machine: any call on the objects that exist.            *)

Init ==
    /\ heap \in {Append(BaseHeap, SQL(t)) : t \in HeapTemplates}
    /\ last = NoCall
    /\ nops = 0
    /\ pc = "idle"
    /\ reg = NoReg
    /\ fmt = NoFmt

Done(c, rec) ==
    /\ heap' = c.heap
    /\ last' = rec
    /\ nops' = nops + 1
    /\ UNCHANGED <<pc, reg, fmt>>

(* Composed(l) *)
NewComposed(l) ==
    /\ nops < MaxOps
    /\ LET c == Composed_init(heap, l)
       IN  Done(c, CallRec("Composed", 0, 0, List(l), <<>>, NoKwargs, c.res, Len(heap)))

(* a + b *)
Add(a, b) ==
    /\ nops < MaxOps
    /\ isComposable(heap, a)
    /\ LET c == add(heap, a, b)
       IN  Done(c, CallRec("add", a, b, List(<<>>), <<>>, NoKwargs, c.res, Len(heap)))

(* a * n *)
Mul(a, n) ==
    /\ nops < MaxOps
    /\ isComposable(heap, a)
    /\ LET c == Composable_mul(heap, a, n)
       IN  Done(c, CallRec("mul", a, n, List(<<>>), <<>>, NoKwargs, c.res, Len(heap)))

(* a.join(j), a being a Composed *)
ComposedJoin(a, j) ==
    /\ nops < MaxOps
    /\ isComposed(heap, a)
    /\ LET c == Composed_join(heap, a, j)
       IN  Done(c, CallRec("Composed.join", a, j, List(<<>>), <<>>, NoKwargs, c.res,
                           Len(heap)))

(* s.join(x), s being an SQL *)
SQLJoin(s, x) ==
    /\ nops < MaxOps
    /\ isSQL(heap, s)
    /\ LET c == SQL_join(heap, s, x)
       IN  Done(c, CallRec("SQL.join", s, 0, x, <<>>, NoKwargs, c.res, Len(heap)))

(* s.format(args..., kwargs...), s being an SQL *)
Format(s, args, kwargs) ==
    /\ nops < MaxOps
    /\ isSQL(heap, s)
    /\ LET c == SQL_format(heap, s, args, kwargs)
       IN  Done(c, CallRec("SQL.format", s, 0, List(<<>>), args, kwargs, c.res, Len(heap)))

Next ==
    \/ \E l \in Lists : NewComposed(l)
    \/ \E a \in Addrs(heap), b \in Addrs(heap) : Add(a, b)
    \/ \E a \in Addrs(heap), n \in 0..MaxRepeat : Mul(a, n)
    \/ \E a \in Addrs(heap), j \in Addrs(heap) : ComposedJoin(a, j)
    \/ \E s \in Addrs(heap), x \in {Ref(a) : a \in Addrs(heap)} \cup {List(l) : l \in Lists} :
          SQLJoin(s, x)
    \/ \E s \in Addrs(heap), args \in ArgTuples, kwargs \in Kwargs : Format(s, args, kwargs)

Spec == Init /\ [][Next]_vars

-----------------------------------------------------------------------------
(* The format machine: one call of SQL.format, a turn of its loop at a     *)
(* time, on a template, positional and keyword arguments drawn at the      *)
(* start.                                                                  *)

TmplItems ==
    { Ch("s"),
      Field("", NoValue, ""),
      Field("0", NoValue, ""),
      Field("1", NoValue, ""),
      Field("k", NoValue, ""),
      Field("0", "r", ""),
      Field("", NoValue, "x") }

Templates == SeqsUpTo(TmplItems, MaxTmpl)

FmtArgElems == {2, 4, 5}

FmtArgTuples == SeqsUpTo(FmtArgElems, MaxArgs)

FmtKwargs == [KwNames -> FmtArgElems \cup {0}]

InitFormat ==
    /\ \E t \in Templates, args \in FmtArgTuples, kwargs \in FmtKwargs :
          /\ heap = Append(BaseHeap, SQL(t))
          /\ fmt = [self |-> Len(BaseHeap) + 1, args |-> args, kwargs |-> kwargs,
                    items |-> parse(t), i |-> 1, rv |-> <<>>, autonum |-> 0]
    /\ last = NoCall
    /\ nops = 0
    /\ pc = "format"
    /\ reg = NoReg

FmtCall(res) ==
    CallRec("SQL.format", fmt.self, 0, List(<<>>), fmt.args, fmt.kwargs, res,
            Len(BaseHeap) + 1)

(* One turn of the loop: it either raises, which ends the call, or moves   *)
(* on to the next item.                                                    *)
FormatStep ==
    /\ pc = "format"
    /\ fmt.i <= Len(fmt.items)
    /\ LET st == formatItem(Loop(heap, fmt.rv, fmt.autonum, Return(0)), fmt.items[fmt.i],
                            fmt.args, fmt.kwargs)
       IN  /\ heap' = st.heap
           /\ fmt' = [fmt EXCEPT !.i = fmt.i + 1, !.rv = st.rv, !.autonum = st.autonum]
           /\ IF st.res.err # ""
              THEN pc' = "done" /\ last' = FmtCall(st.res) /\ nops' = nops + 1
              ELSE UNCHANGED <<pc, last, nops>>
    /\ UNCHANGED reg

(* The return statement after the loop. *)
FormatReturn ==
    /\ pc = "format"
    /\ fmt.i > Len(fmt.items)
    /\ LET c == formatReturn(Loop(heap, fmt.rv, fmt.autonum, Return(0)))
       IN  /\ heap' = c.heap
           /\ last' = FmtCall(c.res)
    /\ pc' = "done"
    /\ nops' = nops + 1
    /\ UNCHANGED <<reg, fmt>>

NextFormat == FormatStep \/ FormatReturn

SpecFormat == InitFormat /\ [][NextFormat]_vars

-----------------------------------------------------------------------------
(* The association script: (a + b) + c and a + (b + c) on three nodes      *)
(* drawn at the start, one addition at a time.                             *)

InitAssoc ==
    /\ heap = BaseHeap
    /\ \E a \in Composables(BaseHeap), b \in Composables(BaseHeap), c \in Composables(BaseHeap) :
          reg = [NoReg EXCEPT !.a = a, !.b = b, !.c = c]
    /\ last = NoCall
    /\ nops = 0
    /\ pc = "ab"
    /\ fmt = NoFmt

ScriptAdd(a, b) ==
    LET c == add(heap, a, b)
    IN  /\ heap' = c.heap
        /\ last' = CallRec("add", a, b, List(<<>>), <<>>, NoKwargs, c.res, Len(heap))
        /\ nops' = nops + 1
        /\ UNCHANGED fmt

(* x = a + b *)
AssocLeftInner ==
    /\ pc = "ab"
    /\ ScriptAdd(reg.a, reg.b)
    /\ reg' = [reg EXCEPT !.x = last'.res]
    /\ pc' = "ab_c"

(* x = x + c *)
AssocLeftOuter ==
    /\ pc = "ab_c"
    /\ ScriptAdd(reg.x.ref, reg.c)
    /\ reg' = [reg EXCEPT !.x = last'.res]
    /\ pc' = "bc"

(* y = b + c *)
AssocRightInner ==
    /\ pc = "bc"
    /\ ScriptAdd(reg.b, reg.c)
    /\ reg' = [reg EXCEPT !.y = last'.res]
    /\ pc' = "a_bc"

(* y = a + y *)
AssocRightOuter ==
    /\ pc = "a_bc"
    /\ ScriptAdd(reg.a, reg.y.ref)
    /\ reg' = [reg EXCEPT !.y = last'.res]
    /\ pc' = "done"

NextAssoc == AssocLeftInner \/ AssocLeftOuter \/ AssocRightInner \/ AssocRightOuter

SpecAssoc == InitAssoc /\ [][NextAssoc]_vars

-----------------------------------------------------------------------------
(* The join script: sep.join(seq) and Composed(seq).join(sep) on a         *)
(* separator and a sequence drawn at the start.  A sequence given as a     *)
(* Composed is joined as it is.                                            *)

JoinElems == {1, 2, 4, 5, 9}

JoinLists == SeqsUpTo(JoinElems, MaxSeq)

JoinHeap == Append(BaseHeap, SQL(Str(<<" ", "|">>)))

InitJoin ==
    /\ heap = JoinHeap
    /\ \E sep \in {a \in Addrs(JoinHeap) : isSQL(JoinHeap, a)},
          arg \in {Ref(a) : a \in {a \in Addrs(JoinHeap) : isComposed(JoinHeap, a)}}
                    \cup {List(l) : l \in JoinLists} :
          reg = [NoReg EXCEPT !.a = sep, !.arg = arg]
    /\ last = NoCall
    /\ nops = 0
    /\ pc = "sqljoin"
    /\ fmt = NoFmt

(* x = sep.join(seq) *)
JoinBySQL ==
    /\ pc = "sqljoin"
    /\ LET c == SQL_join(heap, reg.a, reg.arg)
       IN  /\ heap' = c.heap
           /\ last' = CallRec("SQL.join", reg.a, 0, reg.arg, <<>>, NoKwargs, c.res, Len(heap))
           /\ reg' = [reg EXCEPT !.x = c.res]
    /\ nops' = nops + 1
    /\ pc' = "wrap"
    /\ UNCHANGED fmt

(* y = Composed(seq), or seq itself when it is a Composed *)
JoinWrap ==
    /\ pc = "wrap"
    /\ IF reg.arg.ref # 0
       THEN /\ reg' = [reg EXCEPT !.y = Return(reg.arg.ref)]
            /\ pc' = "cjoin"
            /\ UNCHANGED <<heap, last, nops>>
       ELSE LET c == Composed_init(heap, reg.arg.list)
            IN  /\ heap' = c.heap
                /\ last' = CallRec("Composed", 0, 0, reg.arg, <<>>, NoKwargs, c.res, Len(heap))
                /\ reg' = [reg EXCEPT !.y = c.res]
                /\ nops' = nops + 1
                /\ pc' = IF c.res.err = "" THEN "cjoin" ELSE "done"
    /\ UNCHANGED fmt

(* y = y.join(sep) *)
JoinByComposed ==
    /\ pc = "cjoin"
    /\ LET c == Composed_join(heap, reg.y.ref, reg.a)
       IN  /\ heap' = c.heap
           /\ last' = CallRec("Composed.join", reg.y.ref, reg.a, List(<<>>), <<>>, NoKwargs,
                              c.res, Len(heap))
           /\ reg' = [reg EXCEPT !.y = c.res]
    /\ nops' = nops + 1
    /\ pc' = "done"
    /\ UNCHANGED fmt

NextJoin == JoinBySQL \/ JoinWrap \/ JoinByComposed

SpecJoin == InitJoin /\ [][NextJoin]_vars

-----------------------------------------------------------------------------
(* Properties of the composition machine.                                  *)

Returned == last.res.err = ""

NodeKinds == {"SQL", "Identifier", "Literal", "Placeholder", "Composed"}

OnlyNodes(h, seq) == \A i \in 1..Len(seq) : h[seq[i]].kind \in NodeKinds

Result == heap[last.res.ref]

(* The call returned an object that did not exist before it. *)
Fresh == Returned /\ last.res.ref > last.before

RECURSIVE Times(_, _)
Times(t, n) == IF n = 0 THEN <<>> ELSE t \o Times(t, n - 1)

validJoiner(h, j) == isSQL(h, j) \/ isString(h, j)

(* The separator a Composed.join call interposes: the SQL joiner itself,   *)
(* or the SQL object the call made of a string joiner.                     *)
JoinSeparator ==
    IF isSQL(heap, last.other) THEN last.other ELSE last.before + 1

isLeaf(h, a) == isComposable(h, a) /\ ~isComposed(h, a)

(* C6 as stated: a leaf receiver combined with any node, leaf or Composed, *)
(* gives a fresh Composed of exactly two elements.                         *)
C6_Original ==
    (last.op = "add" /\ isLeaf(heap, last.self) /\ isComposable(heap, last.other)) =>
        /\ Fresh
        /\ isComposed(heap, last.res.ref)
        /\ Len(Result.seq) = 2

(* C6 amended: a leaf receiver combined with a leaf gives a fresh Composed *)
(* of exactly the two operands; combined with a Composed of k children it  *)
(* gives a fresh Composed of 1 + k elements, the receiver followed by the  *)
(* children of the other operand.                                          *)
C6_LeafAdd ==
    (last.op = "add" /\ isLeaf(heap, last.self) /\ isComposable(heap, last.other)) =>
        /\ Fresh
        /\ isComposed(heap, last.res.ref)
        /\ isLeaf(heap, last.other) => Result.seq = <<last.self, last.other>>
        /\ isComposed(heap, last.other) =>
               Result.seq = <<last.self>> \o heap[last.other].seq

C6_Witness ==
    /\ last.op = "add"
    /\ isLeaf(heap, last.self)
    /\ isComposed(heap, last.other)
    /\ Fresh
    /\ Len(Result.seq) = 4

(* Every object that exists keeps its payload and its children. *)
FrameKept ==
    /\ Len(heap') >= Len(heap)
    /\ \A a \in Addrs(heap) : heap'[a] = heap[a]

C9_Repeat ==
    last.op = "mul" =>
        /\ Fresh
        /\ isComposed(heap, last.res.ref)
        /\ Len(Result.seq) = last.other
        /\ \A i \in 1..Len(Result.seq) : Result.seq[i] = last.self
        /\ \A ctx \in Contexts :
              LET one == as_string(heap, last.self, ctx)
                  all == as_string(heap, last.res.ref, ctx)
              IN  /\ last.other = 0 => all = Text(<<>>)
                  /\ one.err = "" => all = Text(Times(one.text, last.other))
                  /\ (one.err # "" /\ last.other > 0) => all = one

C9_Witness ==
    /\ last.op = "mul"
    /\ last.other = 2
    /\ isComposed(heap, last.self)
    /\ Len(heap[last.self].seq) = 2
    /\ Fresh
    /\ as_string(heap, last.res.ref, "cursor").err = ""
    /\ Len(as_string(heap, last.res.ref, "cursor").text) = 20

-----------------------------------------------------------------------------
(* The markers of a template, read off its items.                          *)

ManualNames == {"0", "1", "2", "3"}

ManualNumber == ("0" :> 0) @@ ("1" :> 1) @@ ("2" :> 2) @@ ("3" :> 3)

isAuto(f) == f.name = ""

isManual(f) == f.name \in ManualNames

isNamed(f) == f.name \notin (ManualNames \cup {"", NoValue})

Mode(autonum) ==
    IF autonum = 0 THEN "unset" ELSE IF autonum > 0 THEN "auto" ELSE "manual"

SwitchMessages ==
    { "cannot switch from automatic field numbering to manual",
      "cannot switch from manual field numbering to automatic" }

(* How many auto-numbered markers come before item j. *)
AutoBefore(items, j) == Cardinality({i \in 1..(j - 1) : isAuto(items[i])})

(* The argument the marker of item j selects, 0 when there is none. *)
SelectedArg(items, j, args, kwargs) ==
    LET f == items[j]
    IN  IF isManual(f)
        THEN IF ManualNumber[f.name] < Len(args) THEN args[ManualNumber[f.name] + 1] ELSE 0
        ELSE IF isAuto(f)
        THEN IF AutoBefore(items, j) < Len(args) THEN args[AutoBefore(items, j) + 1] ELSE 0
        ELSE IF isNamed(f) /\ f.name \in DOMAIN kwargs THEN kwargs[f.name]
        ELSE 0

(* The numbering mode the markers before item j have set. *)
ModeBefore(items, j) ==
    IF \E i \in 1..(j - 1) : isManual(items[i]) THEN "manual"
    ELSE IF \E i \in 1..(j - 1) : isAuto(items[i]) THEN "auto"
    ELSE "unset"

(* The error the marker of item j calls for: its specifier or conversion,  *)
(* then a switch of the numbering mode, then a failed lookup.              *)
Offence(items, j, args, kwargs) ==
    LET f == items[j]
    IN  IF f.spec # "" THEN Raise("ValueError", "no format specification supported by SQL")
        ELSE IF f.conv # NoValue
        THEN Raise("ValueError", "no format conversion supported by SQL")
        ELSE IF isManual(f) /\ ModeBefore(items, j) = "auto"
        THEN Raise("ValueError", "cannot switch from automatic field numbering to manual")
        ELSE IF isAuto(f) /\ ModeBefore(items, j) = "manual"
        THEN Raise("ValueError", "cannot switch from manual field numbering to automatic")
        ELSE IF (isManual(f) \/ isAuto(f)) /\ SelectedArg(items, j, args, kwargs) = 0
        THEN Raise("IndexError", "tuple index out of range")
        ELSE IF isNamed(f) /\ SelectedArg(items, j, args, kwargs) = 0
        THEN Raise("KeyError", f.name)
        ELSE Return(0)

Offenders(items, args, kwargs) ==
    {j \in 1..Len(items) : Offence(items, j, args, kwargs).err # ""}

FirstOffender(items, args, kwargs) ==
    CHOOSE j \in Offenders(items, args, kwargs) :
        \A i \in Offenders(items, args, kwargs) : j <= i

(* What a child of a format result is: a snippet made by the call, with    *)
(* its text, or an argument passed to the call.                            *)
Snippet(t) == [lit |-> TRUE, text |-> t, ref |-> 0]

Argument(a) == [lit |-> FALSE, text |-> <<>>, ref |-> a]

RECURSIVE ExpectedChildren(_, _, _, _)
ExpectedChildren(items, j, args, kwargs) ==
    IF j > Len(items) THEN <<>>
    ELSE (IF items[j].pre # <<>> THEN <<Snippet(items[j].pre)>> ELSE <<>>)
         \o (IF items[j].name # NoValue
             THEN <<Argument(SelectedArg(items, j, args, kwargs))>> ELSE <<>>)
         \o ExpectedChildren(items, j + 1, args, kwargs)

ChildShape(h, c, before) ==
    IF c > before /\ isSQL(h, c) THEN Snippet(h[c].wrapped) ELSE Argument(c)

(* The template with every marker replaced by the rendering of the         *)
(* argument it selects; the first rendering that fails is the outcome.     *)
RECURSIVE ExpectedText(_, _, _, _, _, _, _)
ExpectedText(h, items, j, args, kwargs, ctx, acc) ==
    IF j > Len(items) THEN Text(acc)
    ELSE IF items[j].name = NoValue
    THEN ExpectedText(h, items, j + 1, args, kwargs, ctx, acc \o items[j].pre)
    ELSE LET r == as_string(h, SelectedArg(items, j, args, kwargs), ctx)
         IN  IF r.err # "" THEN r
             ELSE ExpectedText(h, items, j + 1, args, kwargs, ctx,
                               acc \o items[j].pre \o r.text)

-----------------------------------------------------------------------------
(* Properties of the format machine.                                       *)

(* C1: the scan keeps one mode flag: an auto-numbered marker that passes   *)
(* sets it to auto and a manual-numbered one to manual; a manual-numbered  *)
(* marker reached in mode auto and an auto-numbered marker reached in mode *)
(* manual raise ValueError; a named marker neither changes the mode nor    *)
(* raises that error; so no Composed is returned for a template with both  *)
(* auto-numbered and manual-numbered markers.                              *)
C1_NumberingModes ==
    [][/\ (pc = "format" /\ fmt.i <= Len(fmt.items)) =>
             LET f == fmt.items[fmt.i]
                 mode == Mode(fmt.autonum)
                 raised == pc' = "done"
             IN  /\ fmt.autonum >= AutonumNone
                 /\ (isManual(f) /\ mode = "auto") =>
                        (raised /\ last'.res.err = "ValueError")
                 /\ (isAuto(f) /\ mode = "manual") =>
                        (raised /\ last'.res.err = "ValueError")
                 /\ (isAuto(f) /\ ~raised) => Mode(fmt'.autonum) = "auto"
                 /\ (isManual(f) /\ ~raised) => Mode(fmt'.autonum) = "manual"
                 /\ (isNamed(f) \/ f.name = NoValue) =>
                        /\ fmt'.autonum = fmt.autonum
                        /\ raised => last'.res.msg \notin SwitchMessages
       /\ (pc' = "done" /\ last'.res.err = "") =>
             ~ /\ \E j \in 1..Len(fmt.items) : isAuto(fmt.items[j])
               /\ \E j \in 1..Len(fmt.items) : isManual(fmt.items[j])]_vars

(* A manual-numbered marker was refused after an auto-numbered one passed. *)
C1_Witness ==
    /\ pc = "done"
    /\ last.res.msg = "cannot switch from automatic field numbering to manual"
    /\ fmt.autonum = 1
    /\ isNamed(fmt.items[2])
    /\ isManual(fmt.items[3])

(* C2: the children of the Composed that format returns are, in template   *)
(* order, a snippet for every literal run and the argument every marker    *)
(* selects: the i-th auto-numbered marker positional argument i, {n}       *)
(* positional argument n, {name} the keyword argument name; the result     *)
(* renders to the template with each marker replaced by the rendering of   *)
(* its argument.                                                           *)
C2_FormatChildren ==
    (pc = "done" /\ Returned) =>
        /\ isComposed(heap, last.res.ref)
        /\ [i \in 1..Len(Result.seq) |-> ChildShape(heap, Result.seq[i], last.before)]
               = ExpectedChildren(fmt.items, 1, fmt.args, fmt.kwargs)
        /\ \A ctx \in Contexts :
              as_string(heap, last.res.ref, ctx)
                  = ExpectedText(heap, fmt.items, 1, fmt.args, fmt.kwargs, ctx, <<>>)

(* Two auto-numbered markers took two different arguments in order. *)
C2_Witness ==
    /\ pc = "done"
    /\ Returned
    /\ Len(fmt.items) = 2
    /\ isAuto(fmt.items[1]) /\ isAuto(fmt.items[2])
    /\ fmt.items[2].pre # <<>>
    /\ Len(fmt.args) = 2
    /\ Len(Result.seq) = 3
    /\ Result.seq[1] = fmt.args[1]
    /\ Result.seq[3] = fmt.args[2]
    /\ fmt.args[1] # fmt.args[2]

ScanErrors == {"ValueError", "IndexError", "KeyError"}

(* C3: a marker whose index or name is missing makes format raise and      *)
(* return no Composed, and the error raised is the one of the first        *)
(* offending marker in scan order: for one marker its specifier or         *)
(* conversion, then the switch of numbering mode, then the lookup.         *)
C3_FirstOffence ==
    pc = "done" =>
        LET off == Offenders(fmt.items, fmt.args, fmt.kwargs)
        IN  /\ off # {} =>
                /\ last.res = Offence(fmt.items, FirstOffender(fmt.items, fmt.args, fmt.kwargs),
                                      fmt.args, fmt.kwargs)
                /\ \A a \in Addrs(heap) : a > last.before => ~isComposed(heap, a)
            /\ last.res.err \in ScanErrors => off # {}

(* A failed lookup in the first marker was raised although the second      *)
(* marker offends too.                                                     *)
C3_Witness ==
    /\ pc = "done"
    /\ last.res.err = "KeyError"
    /\ Len(fmt.items) = 3
    /\ Offenders(fmt.items, fmt.args, fmt.kwargs) = {1, 2, 3}
    /\ Offence(fmt.items, 2, fmt.args, fmt.kwargs).err = "ValueError"
    /\ Offence(fmt.items, 3, fmt.args, fmt.kwargs).err = "IndexError"

-----------------------------------------------------------------------------
(* Properties of the composition machine that concern format.              *)

HeapHoldsNodes == \A a \in Addrs(heap) : isComposed(heap, a) => OnlyNodes(heap, heap[a].seq)

LastItems == parse(heap[last.self].wrapped)

(* A marker of the formatted template selects an argument that is no node. *)
SelectsNonNode ==
    \E j \in 1..Len(LastItems) :
        LET a == SelectedArg(LastItems, j, last.args, last.kwargs)
        IN  a # 0 /\ heap[a].kind \notin NodeKinds

JoinedNonNode ==
    /\ last.op = "SQL.join"
    /\ last.arg.ref = 0
    /\ ~OnlyNodes(heap, last.arg.list)

(* C10 as stated: every Composed holds only nodes; format with a selected  *)
(* argument that is no node raises TypeError, and so does SQL.join over a  *)
(* sequence that holds one.                                                *)
C10_Original ==
    /\ HeapHoldsNodes
    /\ (last.op = "SQL.format" /\ SelectsNonNode) => last.res.err = "TypeError"
    /\ JoinedNonNode => last.res.err = "TypeError"

(* C10 amended: every Composed holds only nodes; format with a selected    *)
(* argument that is no node returns no Composed: it raises TypeError when  *)
(* no marker of the template offends, and the error of the first offending *)
(* marker otherwise; SQL.join over a sequence that holds an object that is *)
(* no node raises TypeError.                                               *)
C10_OnlyNodes ==
    /\ HeapHoldsNodes
    /\ (last.op = "SQL.format" /\ SelectsNonNode) =>
          /\ ~Returned
          /\ \A a \in Addrs(heap) : a > last.before => ~isComposed(heap, a)
          /\ Offenders(LastItems, last.args, last.kwargs) = {} =>
                last.res.err = "TypeError"
          /\ Offenders(LastItems, last.args, last.kwargs) # {} =>
                last.res.err \in ScanErrors
    /\ JoinedNonNode => last.res.err = "TypeError"

C10_Witness ==
    /\ last.op = "SQL.format"
    /\ SelectsNonNode
    /\ last.res.err = "TypeError"
    /\ Len(heap) > last.before
    /\ hasKey(last.kwargs, "k")
    /\ heap[last.kwargs["k"]].kind \in NodeKinds

-----------------------------------------------------------------------------
(* Properties of the scripts.                                              *)

(* The children of the sequence the join script was given. *)
JoinInput == IF reg.arg.ref # 0 THEN heap[reg.arg.ref].seq ELSE reg.arg.list

(* C5: sep.join(seq) has the same children, and so the same rendering, as  *)
(* Composed(seq).join(sep), for seq a plain sequence or a Composed; an     *)
(* empty seq gives an empty Composed and a one-element seq a Composed of   *)
(* just that element.                                                      *)
C5_JoinsAgree ==
    pc = "done" =>
        /\ reg.x.err = reg.y.err
        /\ OnlyNodes(heap, JoinInput) =>
              /\ reg.x.err = ""
              /\ isComposed(heap, reg.x.ref)
              /\ heap[reg.x.ref].seq = heap[reg.y.ref].seq
              /\ \A ctx \in Contexts :
                    as_string(heap, reg.x.ref, ctx) = as_string(heap, reg.y.ref, ctx)
              /\ Len(JoinInput) <= 1 => heap[reg.x.ref].seq = JoinInput

C5_Witness ==
    /\ pc = "done"
    /\ reg.arg.ref = 0
    /\ Len(reg.arg.list) = 2
    /\ reg.x.err = ""
    /\ reg.y.err = ""
    /\ heap[reg.x.ref].seq = <<reg.arg.list[1], reg.a, reg.arg.list[2]>>
    /\ reg.x.ref # reg.y.ref

(* C7: (a + b) + c and a + (b + c) render alike against every context,     *)
(* for nodes a, b, c that are leaves or Composed, empty and nested ones    *)
(* included.                                                               *)
C7_AddAssociative ==
    pc = "done" =>
        /\ reg.x.err = ""
        /\ reg.y.err = ""
        /\ \A ctx \in Contexts :
              as_string(heap, reg.x.ref, ctx) = as_string(heap, reg.y.ref, ctx)

C7_Witness ==
    /\ pc = "done"
    /\ isLeaf(heap, reg.a)
    /\ isComposed(heap, reg.b) /\ Len(heap[reg.b].seq) = 2
    /\ isComposed(heap, reg.c) /\ Len(heap[reg.c].seq) = 3
    /\ reg.x.ref # reg.y.ref
    /\ as_string(heap, reg.x.ref, "connection").err = ""
    /\ Len(as_string(heap, reg.x.ref, "connection").text) > 10

====
